---- MODULE Spec2Model ----
(***************************************************************************)
(* whatsapp-sheduler-app: the scheduled-delivery pipeline.                 *)
(*                                                                         *)
(* The repository holds two revisions of the server over the same Postgres *)
(* tables (media_library, scheduled_messages):                             *)
(*   src/server.js         sweep driven: GET /api/check-pending runs       *)
(*                         processDueMessages; POST /webhook takes the     *)
(*                         provider's delivery receipts;                   *)
(*   src/unnamed/part_000  timer driven: scheduleMessage arms a setTimeout *)
(*                         per entry, sendAndMark dispatches it and        *)
(*                         initPendingMessages re-arms at process start.   *)
(* Both are modelled, as two processes sharing the database.  Every await  *)
(* of an async function is a point where other handlers run, so a dispatch *)
(* is a sequence of steps, one per database query or provider call.        *)
(***************************************************************************)
EXTENDS Integers, Sequences, FiniteSets, TLC

\* ------------------------------------------------------------------ bounds
MaxEntries == 2      \* rows of scheduled_messages, one dispatcher at a time
RaceEntries == 1     \* rows of scheduled_messages, overlapping dispatchers
MaxTime == 2         \* the clock runs 0..MaxTime
MaxSweeps == 2       \* overlapping GET /api/check-pending requests
MaxMedia == 1        \* rows ever inserted into media_library
CallCap == 2         \* the per-entry counts below stop counting here

\* One tick of the model's clock stands for 5 h 30 min, the offset of
\* Asia/Kolkata that DateTime.fromISO(..., {zone}).toUTC() takes off.
IstOffset == 1

\* setTimeout keeps its delay in 32 bits: a delay above 2^31-1 ms (24.8 days,
\* 108 ticks of 5 h 30 min) does not fit and the timer is set to 1 ms
TIMEOUT_MAX == 108

NULL == "<null>"
NoMedia == 0         \* media_id NULL; `msg.media_id ? ... : null` also reads 0 as none

Ids == 1 .. MaxEntries
Times == 0 .. MaxTime
\* a time further ahead of every instant of the clock than a timer can wait
FarTime == MaxTime + TIMEOUT_MAX + 1
SweepIds == 1 .. MaxSweeps
MediaIds == 1 .. MaxMedia
Phone == "+1555"
Texts == {"hi"}

\* --------------------------------------------------- allow-list, composer
WHATSAPP_ALLOWED_TYPES ==
    [ image    |-> {"image/jpeg", "image/png", "image/webp"},
      video    |-> {"video/mp4", "video/3gpp"},
      audio    |-> {"audio/aac", "audio/mp4", "audio/mpeg", "audio/amr",
                    "audio/ogg", "audio/opus"},
      document |-> {"application/pdf", "application/vnd.ms-powerpoint",
                    "application/msword",
                    "application/vnd.openxmlformats-officedocument.wordprocessingml.document",
                    "application/vnd.openxmlformats-officedocument.presentationml.presentation",
                    "application/vnd.openxmlformats-officedocument.spreadsheetml.sheet",
                    "text/plain", "application/vnd.ms-excel"} ]

\* Object.entries order of the table
TypeOrder == <<"image", "video", "audio", "document">>

AllowedTypes == UNION {WHATSAPP_ALLOWED_TYPES[k] : k \in DOMAIN WHATSAPP_ALLOWED_TYPES}

\* MIME types the model uploads: one of the table and one outside it
MimeInputs == {"image/jpeg", "image/gif"}

\* the lookup that gives the last key of the table for every type
getWhatsAppPayloadTypeDocument(mimeType) == TypeOrder[Len(TypeOrder)]

getWhatsAppPayloadType(mimeType) ==
    LET hits == {i \in 1 .. Len(TypeOrder) :
                    mimeType \in WHATSAPP_ALLOWED_TYPES[TypeOrder[i]]}
    IN  IF hits = {} THEN "document"
        ELSE TypeOrder[CHOOSE i \in hits : \A j \in hits : i <= j]

\* ------------------------------------------------------------------ state
VARIABLES
    now,                \* the wall clock (UTC)
    media_library,      \* table media_library: set of rows
    scheduled_messages, \* table scheduled_messages: sequence, index = SERIAL id
    sweep,              \* server.js: the processDueMessages calls in flight
    up,                 \* part_000: the process is running
    timers,             \* part_000: ids with an armed setTimeout
    task,               \* part_000: the sendAndMark call of each id
    submitCalls,        \* provider: POST /messages requests received, per entry
    statusWrites,       \* database: status UPDATEs committed by dispatch, per entry
    dueAtCreate,        \* per entry: scheduled_time <= now held when it was inserted
    mediaSeq,           \* the SERIAL of media_library.id
    dbUp,               \* the database answers; while it does not, pool.query throws
    call                \* one sendWhatsAppMessage call taken alone: arguments, requests, result

vars == <<now, media_library, scheduled_messages, sweep, up, timers, task,
          submitCalls, statusWrites, dueAtCreate, mediaSeq, dbUp, call>>

hist == <<submitCalls, statusWrites>>

\* ---------------------------------------------------------------- helpers
NoRow == [id |-> 0, name |-> "", type |-> ""]

\* pool.query("SELECT * FROM media_library WHERE id=$1").then(r => r.rows[0])
MediaLookup(mid) ==
    IF \E r \in media_library : r.id = mid
    THEN CHOOSE r \in media_library : r.id = mid
    ELSE NoRow

Entries == 1 .. Len(scheduled_messages)

\* the k-th message id the provider returns for submissions of entry id:
\* an opaque string, different for every accepted submission
Wamid(id, k) == "wamid." \o ToString(id) \o "." \o ToString(k)

\* the counts of provider calls and of writes are observations: they count up
\* to CallCap and stay there
Bump(n) == IF n < CallCap THEN n + 1 ELSE n

\* the provider's outcomes for POST /messages: an id, a 200 without an id, an error
SubmitOutcomes == {"id", "noid", "error"}
\* and for POST /media: a handle, a 200 without an id, an error
UploadOutcomes == {"handle", "nohandle", "error"}

\* uploadMediaToWhatsApp: the handle POST /media returns for the asset of
\* entry id; a 200 without an id gives undefined and an error gives null,
\* both falsy and both read here as NULL
uploadMediaToWhatsApp(o, id) == IF o = "handle" THEN "media." \o ToString(id) ELSE NULL

\* sendWhatsAppMessage without its `if (!mediaId) throw`: the submission goes
\* out although the upload gave no handle
SendLogNoThrow(mediaRow, up_o, id) ==
    IF mediaRow.id # 0
    THEN IF uploadMediaToWhatsApp(up_o, id) # NULL THEN <<"upload", "submit">>
         ELSE <<"upload-failed", "submit">>
    ELSE <<"submit">>

\* sendWhatsAppMessage with a second upload attempt after a failed one
SendLogRetry(mediaRow, up_o, id) ==
    IF mediaRow.id # 0
    THEN IF uploadMediaToWhatsApp(up_o, id) # NULL THEN <<"upload", "submit">>
         ELSE <<"upload-failed", "upload", "submit">>
    ELSE <<"submit">>

\* The provider calls of one sendWhatsAppMessage(to, text, mediaRow), given the
\* provider's answers: with a mediaRow the upload comes first and a falsy
\* mediaId throws ('Media upload failed') before anything is submitted; an
\* undefined mediaRow takes the default null and is sent as text.
SendLog(mediaRow, up_o, id) ==
    IF mediaRow.id # 0
    THEN IF uploadMediaToWhatsApp(up_o, id) # NULL THEN <<"upload", "submit">>
         ELSE <<"upload-failed">>
    ELSE <<"submit">>

Submits(log) == \E k \in 1 .. Len(log) : log[k] = "submit"

\* text || ""
OrEmpty(text) == IF text = NULL \/ text = "" THEN "" ELSE text

\* The payload sendWhatsAppMessage builds (the same lines in both files):
\* { messaging_product, to, type: waType, [waType]: { id, caption } } with a
\* mediaRow, { messaging_product, to, type: 'text', text: { body } } without.
Payload(to, text, mediaRow, mediaId) ==
    IF mediaRow.id # 0
    THEN LET waType == getWhatsAppPayloadType(mediaRow.type)
         IN  [messaging_product |-> "whatsapp", to |-> to, type |-> waType]
                @@ (waType :> [id |-> mediaId, caption |-> OrEmpty(text)])
    ELSE [messaging_product |-> "whatsapp", to |-> to, type |-> "text",
          text |-> [body |-> text]]

\* The requests one sendWhatsAppMessage(to, text, mediaRow) puts to the
\* provider, in order: POST /media with the file and the id it answered,
\* POST /messages with the payload.
SendRequests(to, text, mediaRow, up_o, id) ==
    LET log == SendLog(mediaRow, up_o, id)
        mediaId == uploadMediaToWhatsApp(up_o, id)
    IN  [k \in 1 .. Len(log) |->
            IF log[k] = "submit"
            THEN [api |-> "messages", payload |-> Payload(to, text, mediaRow, mediaId)]
            ELSE [api |-> "media", filename |-> mediaRow.name,
                  contentType |-> mediaRow.type, response |-> mediaId]]

SetStatus(id, s) ==
    [scheduled_messages EXCEPT ![id].status = s]

\* the step a dispatch of row msg begins with: the media SELECT when media_id
\* is set, else straight to sendWhatsAppMessage
FirstPc(msg) ==
    IF msg.media_id # NoMedia THEN "media" ELSE "send"

\* A dispatch in flight: where it stands (pc), the rows still to process (the
\* first is in hand), the local mediaRow, what sendWhatsAppMessage returned
\* (result) and the provider calls it made (log).
IdleCtx == [pc |-> "idle", rows |-> <<>>, mediaRow |-> NoRow, result |-> NULL, log |-> <<>>]

\* the body of a dispatch is entered for the first of rows
Enter(rows, table) ==
    IF rows = <<>> THEN IdleCtx
    ELSE [IdleCtx EXCEPT !.pc = FirstPc(table[Head(rows)]), !.rows = rows]

\* no sendWhatsAppMessage call is looked at alone
NoCall == [pc |-> "none", text |-> NULL, mediaRow |-> NoRow, requests |-> <<>>, result |-> NULL]

Init ==
    /\ now = 0
    /\ media_library = {}
    /\ scheduled_messages = <<>>
    /\ sweep = [s \in SweepIds |-> IdleCtx]
    /\ up = TRUE
    /\ timers = {}
    /\ task = [i \in Ids |-> IdleCtx]
    /\ submitCalls = [i \in Ids |-> 0]
    /\ statusWrites = [i \in Ids |-> 0]
    /\ dueAtCreate = <<>>
    /\ mediaSeq = 0
    /\ dbUp = TRUE
    /\ call = NoCall

\* ------------------------------------------------------------- environment
Tick ==
    /\ now < MaxTime
    /\ now' = now + 1
    /\ UNCHANGED <<media_library, scheduled_messages, sweep, up, timers, task,
                   hist, dueAtCreate, mediaSeq, dbUp, call>>

\* the connection of the pool to Postgres is lost, or comes back
DatabaseDown ==
    /\ dbUp
    /\ dbUp' = FALSE
    /\ UNCHANGED <<now, media_library, scheduled_messages, sweep, up, timers, task,
                   hist, dueAtCreate, mediaSeq, call>>

DatabaseBack ==
    /\ ~dbUp
    /\ dbUp' = TRUE
    /\ UNCHANGED <<now, media_library, scheduled_messages, sweep, up, timers, task,
                   hist, dueAtCreate, mediaSeq, call>>

\* ------------------------------------------------- media library (both files)
\* POST /api/upload-media: a type outside the allow-list is refused
UploadMedia(name, type) ==
    /\ dbUp
    /\ mediaSeq < MaxMedia
    /\ type \in AllowedTypes
    /\ mediaSeq' = mediaSeq + 1
    /\ media_library' = media_library \cup {[id |-> mediaSeq + 1, name |-> name, type |-> type]}
    /\ UNCHANGED <<now, scheduled_messages, sweep, up, timers, task, hist,
                   dueAtCreate, dbUp, call>>

\* The asset store loses a row that entries still name (scenario C of the
\* specification: "mediaRef pointing to a deleted asset").
DeleteMediaAsset(mid) ==
    /\ dbUp
    /\ \E r \in media_library : r.id = mid
    /\ media_library' = {r \in media_library : r.id # mid}
    /\ UNCHANGED <<now, scheduled_messages, sweep, up, timers, task, hist,
                   dueAtCreate, mediaSeq, dbUp, call>>

\* the columns of scheduled_messages (createTables)
Columns == {"id", "phone_number", "message_text", "media_id", "scheduled_time", "status"}

\* the row INSERT ... RETURNING * gives back
NewRow(text, media_id, scheduled_time) ==
    [id |-> Len(scheduled_messages) + 1, phone_number |-> Phone, message_text |-> text,
     media_id |-> media_id, scheduled_time |-> scheduled_time, status |-> "pending"]

\* media_id INT REFERENCES media_library(id): the INSERT throws on an unknown
\* id, as it does while the database is away
InsertAllowed(media_id) ==
    /\ dbUp
    /\ media_id # NoMedia => \E r \in media_library : r.id = media_id

\* ------------------------------------------------------------ src/server.js
\* DateTime.fromISO(scheduled_time, {zone: 'Asia/Kolkata'}).toUTC()
ToUTC(istTime) == istTime - IstOffset

\* POST /api/schedule-message of server.js: converts the time, inserts, answers.
\* scheduled_time is the caller's Asia/Kolkata wall-clock time.
PostScheduleMessage(text, media_id, scheduled_time) ==
    /\ InsertAllowed(media_id)
    /\ LET row == NewRow(text, media_id, ToUTC(scheduled_time))
       IN  /\ scheduled_messages' = Append(scheduled_messages, row)
           /\ dueAtCreate' = Append(dueAtCreate, row.scheduled_time <= now)
    /\ UNCHANGED <<now, media_library, sweep, up, timers, task, hist, mediaSeq, dbUp, call>>

\* the SELECT without its status filter
DueRowsAnyStatus(t) ==
    SelectSeq([i \in Entries |-> i], LAMBDA i : scheduled_messages[i].scheduled_time <= t)

\* SELECT * FROM scheduled_messages WHERE status='pending' AND scheduled_time <= $1
DueRows(t) ==
    SelectSeq([i \in Entries |-> i],
              LAMBDA i : /\ scheduled_messages[i].status = "pending"
                         /\ scheduled_messages[i].scheduled_time <= t)

\* GET /api/check-pending -> processDueMessages, up to the end of its SELECT;
\* when the SELECT throws the catch at line 238 ends the call
CheckPending(s) ==
    /\ sweep[s].pc = "idle"
    /\ \A r \in SweepIds : r < s => sweep[r].pc # "idle"   \* the first free slot
    /\ sweep' = [sweep EXCEPT ![s] = IF dbUp THEN Enter(DueRows(now), scheduled_messages)
                                     ELSE IdleCtx]
    /\ UNCHANGED <<now, media_library, scheduled_messages, up, timers, task, hist,
                   dueAtCreate, mediaSeq, dbUp, call>>

\* lines 222-224: the media SELECT of the row in hand; a throw goes to the
\* catch at line 233
SweepMedia(s) ==
    /\ sweep[s].pc = "media"
    /\ LET id == Head(sweep[s].rows)
           row == MediaLookup(scheduled_messages[id].media_id)
       IN  sweep' = IF dbUp
                    THEN [sweep EXCEPT ![s].mediaRow = row,
                                       ![s].pc = "send"]
                    ELSE [sweep EXCEPT ![s].pc = "catch"]
    /\ UNCHANGED <<now, media_library, scheduled_messages, up, timers, task, hist,
                   dueAtCreate, mediaSeq, dbUp, call>>

\* line 226: sendWhatsAppMessage of server.js, which talks to the provider
\* only: resp.data.messages?.[0]?.id || null, and null from its catch
SweepSend(s) ==
    /\ sweep[s].pc = "send"
    /\ LET id == Head(sweep[s].rows)
       IN  \E up_o \in UploadOutcomes, o \in SubmitOutcomes :
              LET log == SendLog(sweep[s].mediaRow, up_o, id)
              IN  /\ submitCalls' = IF Submits(log) THEN [submitCalls EXCEPT ![id] = Bump(@)]
                                    ELSE submitCalls
                  /\ sweep' = [sweep EXCEPT
                                 ![s].pc = "write",
                                 ![s].mediaRow = NoRow,   \* not read again
                                 ![s].log = log,
                                 ![s].result = IF Submits(log) /\ o = "id"
                                               THEN Wamid(id, Bump(submitCalls[id]))
                                               ELSE NULL]
    /\ UNCHANGED <<now, media_library, scheduled_messages, up, timers, task,
                   statusWrites, dueAtCreate, mediaSeq, dbUp, call>>

\* the loop moves to the next row, or processDueMessages returns
SweepAdvance(s) ==
    [sweep EXCEPT ![s] = Enter(Tail(sweep[s].rows), scheduled_messages)]

\* the status UPDATE of processDueMessages for the row in hand (lines 228-231)
DispatchWrite(table, id, messageId) ==
    [table EXCEPT ![id].status = IF messageId # NULL THEN "sent" ELSE "failed"]

\* lines 228-231: UPDATE scheduled_messages SET status=$1 WHERE id=$2; a throw
\* goes to the catch at line 233
SweepWrite(s) ==
    /\ sweep[s].pc = "write"
    /\ LET id == Head(sweep[s].rows)
           messageId == sweep[s].result
       IN  IF dbUp
           THEN /\ scheduled_messages' = DispatchWrite(scheduled_messages, id, messageId)
                /\ statusWrites' = [statusWrites EXCEPT ![id] = Bump(@)]
                /\ sweep' = SweepAdvance(s)
           ELSE /\ sweep' = [sweep EXCEPT ![s].pc = "catch"]
                /\ UNCHANGED <<scheduled_messages, statusWrites>>
    /\ UNCHANGED <<now, media_library, up, timers, task, submitCalls,
                   dueAtCreate, mediaSeq, dbUp, call>>

\* lines 233-236: the inner catch writes 'failed'; when that UPDATE throws too,
\* the outer catch (line 238) ends the sweep with the rest of the rows untouched
SweepCatch(s) ==
    /\ sweep[s].pc = "catch"
    /\ LET id == Head(sweep[s].rows)
       IN  IF dbUp
           THEN /\ scheduled_messages' = SetStatus(id, "failed")
                /\ statusWrites' = [statusWrites EXCEPT ![id] = Bump(@)]
                /\ sweep' = SweepAdvance(s)
           ELSE /\ sweep' = [sweep EXCEPT ![s] = IdleCtx]
                /\ UNCHANGED <<scheduled_messages, statusWrites>>
    /\ UNCHANGED <<now, media_library, up, timers, task, submitCalls,
                   dueAtCreate, mediaSeq, dbUp, call>>

\* --- POST /webhook
\* the receipt statuses the provider sends (comment at line 279), and one
\* more string: status.status is stored for whatever it reads
ReceiptStatuses == {"sent", "delivered", "read", "failed", "deleted"}

\* the message ids a receipt may carry: a provider id, or any other string of
\* the request body, such as the digits of a local id
ReceiptIds == {Wamid(1, 1)} \cup {ToString(i) : i \in Ids}

\* Postgres reads the text parameter $2 as the integer column id: the digits
\* of a number give that number, anything else is "invalid input syntax"
IsInteger(messageId) == \E i \in Ids : ToString(i) = messageId
PgInteger(messageId) == CHOOSE i \in Ids : ToString(i) = messageId

\* WHERE id=$2: the row whose id is the integer the parameter reads as
Matches(id, messageId) == IsInteger(messageId) /\ id = PgInteger(messageId)

\* the receipt status stored as it comes
ReceiptValueRaw(messageStatus) == messageStatus

\* line 286: the status stored for a receipt status
ReceiptValue(messageStatus) ==
    IF messageStatus = "delivered" \/ messageStatus = "read" THEN "sent" ELSE "failed"

\* the UPDATE that answers a flipped row: a second run of it undoes the first
ReceiptToggle(table, messageId, messageStatus) ==
    [i \in 1 .. Len(table) |->
        IF Matches(i, messageId)
        THEN [table[i] EXCEPT !.status = IF @ = ReceiptValue(messageStatus) THEN "pending"
                                         ELSE ReceiptValue(messageStatus)]
        ELSE table[i]]

\* the UPDATE with the receipt's id looked up among the ids the provider
\* issued for the row
ReceiptByProviderId(table, messageId, messageStatus) ==
    [i \in 1 .. Len(table) |->
        IF messageId \in {Wamid(i, k) : k \in 1 .. CallCap}
        THEN [table[i] EXCEPT !.status = ReceiptValue(messageStatus)]
        ELSE table[i]]

\* UPDATE scheduled_messages SET status=$1 WHERE id=$2 on table; with an id
\* that is no integer the statement throws and nothing is written
ReceiptUpdate(table, messageId, messageStatus) ==
    [i \in 1 .. Len(table) |->
        IF Matches(i, messageId)
        THEN [table[i] EXCEPT !.status = ReceiptValue(messageStatus)]
        ELSE table[i]]

\* One iteration of the innermost loop of the handler (lines 277-288), for one
\* status of the request body: UPDATE scheduled_messages SET status=$1 WHERE
\* id=$2.  The handler awaits each UPDATE, so other handlers run between two
\* iterations.  A throw leaves the loops for the catch at line 291 and the
\* remaining statuses of the body are dropped, which is the same behaviour as
\* a body that ends there.
WebhookStatus(messageId, messageStatus) ==
    /\ scheduled_messages' = IF dbUp
                              THEN ReceiptUpdate(scheduled_messages, messageId, messageStatus)
                              ELSE scheduled_messages
    /\ UNCHANGED <<now, media_library, sweep, up, timers, task, hist,
                   dueAtCreate, mediaSeq, dbUp, call>>

\* ----------------------------------------------------- src/unnamed/part_000
\* scheduleMessage(msg) for each of msgs: delay <= 0 calls sendAndMark, whose
\* body runs up to its first await; else a timer is armed.
\* new Date(msg.scheduled_time) reads the TIMESTAMP back in the zone it was
\* written in, so the delay is scheduled_time - now.
scheduleMessage(msgs, table, tm, tk) ==
    LET due == {i \in msgs : table[i].scheduled_time - now <= 0}
    IN  /\ timers' = tm \cup (msgs \ due)
        /\ task' = [i \in Ids |-> IF i \in due THEN Enter(<<i>>, table) ELSE tk[i]]

\* POST /api/schedule-message of part_000: inserts the time as given, then
\* scheduleMessage(newMsg)
PostScheduleMessageTimer(text, media_id, scheduled_time) ==
    /\ up
    /\ InsertAllowed(media_id)
    /\ LET row == NewRow(text, media_id, scheduled_time)
       IN  /\ scheduled_messages' = Append(scheduled_messages, row)
           /\ dueAtCreate' = Append(dueAtCreate, row.scheduled_time <= now)
           /\ scheduleMessage({row.id}, Append(scheduled_messages, row), timers, task)
    /\ UNCHANGED <<now, media_library, sweep, up, hist, mediaSeq, dbUp, call>>

\* setTimeout(cb, delay) of an armed timer has run out: the delay has passed,
\* or it was above TIMEOUT_MAX and the timer ran after 1 ms
TimerElapsed(id) ==
    LET delay == scheduled_messages[id].scheduled_time - now
    IN  delay <= 0 \/ delay > TIMEOUT_MAX

\* the setTimeout callback of line 203 runs once its timer has run out
TimerFire(id) ==
    /\ up
    /\ id \in timers
    /\ TimerElapsed(id)
    /\ timers' = timers \ {id}
    /\ task' = [task EXCEPT ![id] = Enter(<<id>>, scheduled_messages)]
    /\ UNCHANGED <<now, media_library, scheduled_messages, sweep, up, hist,
                   dueAtCreate, mediaSeq, dbUp, call>>

\* lines 177-179 of sendAndMark: the media SELECT; a throw goes to the catch
\* at line 190
TaskMedia(id) ==
    /\ up
    /\ task[id].pc = "media"
    /\ LET row == MediaLookup(scheduled_messages[id].media_id)
       IN  task' = IF dbUp
                   THEN [task EXCEPT ![id].mediaRow = row,
                                     ![id].pc = "send"]
                   ELSE [task EXCEPT ![id].pc = "catch"]
    /\ UNCHANGED <<now, media_library, scheduled_messages, sweep, up, timers, hist,
                   dueAtCreate, mediaSeq, dbUp, call>>

\* line 181: sendWhatsAppMessage of part_000: true when neither call threw,
\* false from its catch
TaskSend(id) ==
    /\ up
    /\ task[id].pc = "send"
    /\ \E up_o \in UploadOutcomes, o \in SubmitOutcomes :
          LET log == SendLog(task[id].mediaRow, up_o, id)
          IN  /\ submitCalls' = IF Submits(log) THEN [submitCalls EXCEPT ![id] = Bump(@)]
                                ELSE submitCalls
              /\ task' = [task EXCEPT
                            ![id].pc = "write",
                            ![id].mediaRow = NoRow,       \* not read again
                            ![id].log = log,
                            ![id].result = IF Submits(log) /\ o # "error"
                                           THEN "true" ELSE "false"]
    /\ UNCHANGED <<now, media_library, scheduled_messages, sweep, up, timers,
                   statusWrites, dueAtCreate, mediaSeq, dbUp, call>>

\* lines 183-189: UPDATE ... SET status='sent' or 'failed'; a throw goes to
\* the catch at line 190
TaskWrite(id) ==
    /\ up
    /\ task[id].pc = "write"
    /\ LET success == task[id].result = "true"
       IN  IF dbUp
           THEN /\ scheduled_messages' = SetStatus(id, IF success THEN "sent" ELSE "failed")
                /\ statusWrites' = [statusWrites EXCEPT ![id] = Bump(@)]
                /\ task' = [task EXCEPT ![id] = IdleCtx]
           ELSE /\ task' = [task EXCEPT ![id].pc = "catch"]
                /\ UNCHANGED <<scheduled_messages, statusWrites>>
    /\ UNCHANGED <<now, media_library, sweep, up, timers, submitCalls,
                   dueAtCreate, mediaSeq, dbUp, call>>

\* what the end of the timer-driven process leaves: no timers, no calls in flight
Down ==
    /\ up' = FALSE
    /\ timers' = {}
    /\ task' = [i \in Ids |-> IdleCtx]

\* lines 190-193: the catch writes 'failed'.  When that UPDATE throws as well
\* the promise of sendAndMark rejects with nobody awaiting it: Node either
\* logs the unhandled rejection and goes on, or ends the process.
TaskCatch(id) ==
    /\ up
    /\ task[id].pc = "catch"
    /\ IF dbUp
       THEN /\ scheduled_messages' = SetStatus(id, "failed")
            /\ statusWrites' = [statusWrites EXCEPT ![id] = Bump(@)]
            /\ task' = [task EXCEPT ![id] = IdleCtx]
            /\ UNCHANGED <<up, timers>>
       ELSE /\ \/ /\ task' = [task EXCEPT ![id] = IdleCtx]
                  /\ UNCHANGED <<up, timers>>
               \/ Down
            /\ UNCHANGED <<scheduled_messages, statusWrites>>
    /\ UNCHANGED <<now, media_library, sweep, submitCalls,
                   dueAtCreate, mediaSeq, dbUp, call>>

\* the process dies: its timers and its calls in flight are gone
Crash ==
    /\ up
    /\ Down
    /\ UNCHANGED <<now, media_library, scheduled_messages, sweep, hist,
                   dueAtCreate, mediaSeq, dbUp, call>>

\* SELECT * FROM scheduled_messages WHERE status='pending' AND scheduled_time >= $1
InitRows(t) ==
    {i \in Entries : /\ scheduled_messages[i].status = "pending"
                     /\ scheduled_messages[i].scheduled_time >= t}

\* initPendingMessages(), called at line 218 when the process starts:
\* schedules what its SELECT returns; when the SELECT throws nothing is scheduled
initPendingMessages ==
    IF dbUp
    THEN scheduleMessage(InitRows(now), scheduled_messages, {}, [i \in Ids |-> IdleCtx])
    ELSE UNCHANGED <<timers, task>>

\* the process starts
Startup ==
    /\ ~up
    /\ up' = TRUE
    /\ initPendingMessages
    /\ UNCHANGED <<now, media_library, scheduled_messages, sweep, hist,
                   dueAtCreate, mediaSeq, dbUp, call>>

\* ------------------------------------- sendWhatsAppMessage as a function
\* the texts and the media rows a call may be given: text present, empty or
\* absent; no row, a row of each type of the table, or a row whose type the
\* table does not hold
TextInputs == {"hi", "", NULL}
OtherTypes == {"image/gif", "application/zip"}
MediaRowInputs ==
    {NoRow} \cup {[id |-> 1, name |-> "asset", type |-> t] : t \in AllowedTypes \cup OtherTypes}

InitSend ==
    /\ now = 0
    /\ media_library = {}
    /\ scheduled_messages = <<>>
    /\ sweep = [s \in SweepIds |-> IdleCtx]
    /\ up = TRUE
    /\ timers = {}
    /\ task = [i \in Ids |-> IdleCtx]
    /\ submitCalls = [i \in Ids |-> 0]
    /\ statusWrites = [i \in Ids |-> 0]
    /\ dueAtCreate = <<>>
    /\ mediaSeq = 0
    /\ dbUp = TRUE
    /\ \E text \in TextInputs, mediaRow \in MediaRowInputs :
          call = [NoCall EXCEPT !.pc = "called", !.text = text, !.mediaRow = mediaRow]

\* sendWhatsAppMessage of server.js: the id of the accepted message, else null
sendWhatsAppMessage(id) ==
    /\ call.pc = "called"
    /\ \E up_o \in UploadOutcomes, o \in SubmitOutcomes :
          LET requests == SendRequests(Phone, call.text, call.mediaRow, up_o, id)
              log == SendLog(call.mediaRow, up_o, id)
          IN  call' = [call EXCEPT !.pc = "returned",
                                   !.requests = requests,
                                   !.result = IF Submits(log) /\ o = "id"
                                              THEN Wamid(id, 1) ELSE NULL]
    /\ UNCHANGED <<now, media_library, scheduled_messages, sweep, up, timers, task,
                   hist, dueAtCreate, mediaSeq, dbUp>>

\* sendWhatsAppMessage of part_000: true, or false from its catch
sendWhatsAppMessageTimer(id) ==
    /\ call.pc = "called"
    /\ \E up_o \in UploadOutcomes, o \in SubmitOutcomes :
          LET requests == SendRequests(Phone, call.text, call.mediaRow, up_o, id)
              log == SendLog(call.mediaRow, up_o, id)
          IN  call' = [call EXCEPT !.pc = "returned",
                                   !.requests = requests,
                                   !.result = IF Submits(log) /\ o # "error"
                                              THEN "true" ELSE "false"]
    /\ UNCHANGED <<now, media_library, scheduled_messages, sweep, up, timers, task,
                   hist, dueAtCreate, mediaSeq, dbUp>>

\* ------------------------------------------------------------ specification
Environment ==
    \/ Tick
    \/ DatabaseDown
    \/ DatabaseBack
    \/ \E type \in MimeInputs : UploadMedia("asset", type)
    \/ \E mid \in MediaIds : DeleteMediaAsset(mid)

\* the requests that reach the sweep-driven server while at most n rows exist
Requests(n) ==
    \/ /\ Len(scheduled_messages) < n
       /\ \E text \in Texts, media_id \in {NoMedia} \cup MediaIds,
             t \in IstOffset .. MaxTime + IstOffset :
             PostScheduleMessage(text, media_id, t)
    \/ \E messageId \in ReceiptIds, messageStatus \in ReceiptStatuses :
          WebhookStatus(messageId, messageStatus)

\* processDueMessages in the slots S
Sweeps(S) ==
    \/ \E s \in S : CheckPending(s)
    \/ \E s \in S : SweepMedia(s)
    \/ \E s \in S : SweepSend(s)
    \/ \E s \in S : SweepWrite(s)
    \/ \E s \in S : SweepCatch(s)

\* the timer-driven server while at most n rows exist
TimerServer(n) ==
    \/ /\ Len(scheduled_messages) < n
       /\ \E text \in Texts, media_id \in {NoMedia} \cup MediaIds, t \in Times \cup {FarTime} :
             PostScheduleMessageTimer(text, media_id, t)
    \/ \E id \in Ids : TimerFire(id)
    \/ \E id \in Ids : TaskMedia(id)
    \/ \E id \in Ids : TaskSend(id)
    \/ \E id \in Ids : TaskWrite(id)
    \/ \E id \in Ids : TaskCatch(id)
    \/ Crash
    \/ Startup

\* both servers on one database, overlapping sweeps
Next == Environment \/ Requests(RaceEntries) \/ Sweeps(SweepIds) \/ TimerServer(RaceEntries)
Spec == Init /\ [][Next]_vars

\* the sweep-driven server alone, one sweep at a time
NextSweep == Environment \/ Requests(MaxEntries) \/ Sweeps({1})
SpecSweep == Init /\ [][NextSweep]_vars

\* the timer-driven server alone
NextTimer == Environment \/ TimerServer(MaxEntries)
SpecTimer == Init /\ [][NextTimer]_vars

\* one sendWhatsAppMessage call of either file
NextSend ==
    \/ \E id \in Ids : sendWhatsAppMessage(id)
    \/ \E id \in Ids : sendWhatsAppMessageTimer(id)
SpecSend == InitSend /\ [][NextSend]_vars

TypeOK ==
    /\ now \in Times
    /\ \A i \in Entries : /\ scheduled_messages[i].id = i
                           /\ DOMAIN scheduled_messages[i] = Columns

\* ------------------------------------------------------------------ claims
Status(id) == scheduled_messages[id].status

\* the dispatches in flight: each sweep with the row it has in hand, each
\* sendAndMark call
SweepOn(id) == {s \in SweepIds : sweep[s].pc # "idle" /\ Head(sweep[s].rows) = id}
Running == {sweep[s] : s \in {r \in SweepIds : sweep[r].pc # "idle"}}
              \cup {task[i] : i \in {j \in Ids : task[j].pc # "idle"}}

\* dispatches of entry id: those that wrote its status and those in flight
Dispatched(id) ==
    statusWrites[id] + Cardinality(SweepOn(id)) + (IF task[id].pc # "idle" THEN 1 ELSE 0)

Failed(result) == result = NULL \/ result = "false"

UploadFailed(log) == \E k \in 1 .. Len(log) : log[k] = "upload-failed"
Uploads(log) == \E k \in 1 .. Len(log) : log[k] = "upload" \/ log[k] = "upload-failed"

\* C1: whatever dispatch stimuli overlap on an entry, the provider gets exactly
\* one submission call for it and its status is written once.
C1_OneCallOneWrite ==
    \A id \in Ids : submitCalls[id] <= 1 /\ statusWrites[id] <= 1

\* C2: an entry created with scheduled_time > now is dispatched once, also
\* when due-sweeps overlap its wait or its dispatch.
C2_FutureEntryDispatchedOnce ==
    \A id \in Entries : ~dueAtCreate[id] => Dispatched(id) <= 1

\* C3: an entry created with scheduled_time <= now is dispatched by its
\* creation, once, and no timer is armed for it.
C3_DueEntryDispatchedAtCreation ==
    \A id \in Entries : dueAtCreate[id] => Dispatched(id) = 1 /\ id \notin timers

\* C4: when the process starts with the database reachable, every entry that
\* is pending and already due is dispatched or re-armed by the startup sweep.
C4_StartupRecoversDue ==
    [][(~up /\ up' /\ dbUp) =>
          \A id \in Entries :
             (Status(id) = "pending" /\ scheduled_messages[id].scheduled_time <= now)
                => (id \in timers' \/ task'[id].pc # "idle")]_vars

\* C5: a failure-class receipt (any status but delivered/read) leaves an entry
\* that is sent as sent.
C5_ReceiptKeepsSent ==
    [][\A messageId \in ReceiptIds, messageStatus \in ReceiptStatuses \ {"delivered", "read"} :
          WebhookStatus(messageId, messageStatus) =>
             \A id \in Entries : Status(id) = "sent" => scheduled_messages'[id].status = "sent"]_vars

\* the message ids the provider has issued for the submissions of entry id
ProviderIds(id) == {Wamid(id, k) : k \in 1 .. submitCalls[id]}

\* C6: a receipt for message id pid changes no entry but one the provider
\* issued pid for; in particular not the entry whose local id reads like pid.
C6_ReceiptCorrelatesByProviderId ==
    [][\A messageId \in ReceiptIds, messageStatus \in ReceiptStatuses :
          WebhookStatus(messageId, messageStatus) =>
             \A id \in Entries :
                messageId \notin ProviderIds(id) => scheduled_messages'[id] = scheduled_messages[id]]_vars

\* the provider message id a row carries, if the table has a column for it
HasProviderMessageId(row) ==
    "providerMessageId" \in DOMAIN row /\ row.providerMessageId # NULL

\* C7: a row carries a provider message id exactly when its status is sent.
C7_ProviderIdIffSent ==
    \A id \in Entries : HasProviderMessageId(scheduled_messages[id]) <=> Status(id) = "sent"

C9_DanglingMediaFailsWithoutCall ==
    \A ctx \in Running :
       (/\ ctx.pc = "write"
        /\ scheduled_messages[Head(ctx.rows)].media_id # NoMedia
        /\ ~Uploads(ctx.log))
          => ctx.log = <<>> /\ Failed(ctx.result)

\* C10: when a dispatch ends, whatever was thrown on its way, its entry is
\* not left pending.
C10_DispatchEndsTerminal ==
    [][/\ \A s \in SweepIds :
             (sweep[s].pc \in {"write", "catch"} /\ sweep'[s] # sweep[s]
                 /\ sweep'[s].pc # "catch")
                => scheduled_messages'[Head(sweep[s].rows)].status # "pending"
       /\ \A id \in Ids :
             (task[id].pc \in {"write", "catch"} /\ task'[id].pc = "idle" /\ up')
                => scheduled_messages'[id].status # "pending"]_vars

\* C11: in every state of the table and for every receipt, the webhook's
\* UPDATE run twice in a row leaves the table the UPDATE run once leaves.
C11_ReceiptIdempotent ==
    \A messageId \in ReceiptIds, messageStatus \in ReceiptStatuses :
       LET once == ReceiptUpdate(scheduled_messages, messageId, messageStatus)
       IN  ReceiptUpdate(once, messageId, messageStatus) = once

\* a receipt has been stored: a row no dispatch wrote is no longer pending
C11_Witness ==
    \E id \in Entries : Status(id) # "pending" /\ statusWrites[id] = 0

\* the rows a processDueMessages call still has to process
Holds(ctx, id) == \E k \in 1 .. Len(ctx.rows) : ctx.rows[k] = id

\* C12: a due-sweep leaves alone every entry that is sent or failed when it
\* runs: it does not select the entry, does not pick it up later, and it
\* submits and writes for no entry but the one it has selected and in hand.
C12_SweepSkipsTerminal ==
    /\ [][\A s \in SweepIds, id \in Entries :
             (Status(id) # "pending" /\ ~Holds(sweep[s], id)) => ~Holds(sweep'[s], id)]_vars
    /\ [][\A id \in Entries :
             (submitCalls'[id] # submitCalls[id] \/ statusWrites'[id] # statusWrites[id])
                => \E s \in SweepIds : sweep[s].pc # "idle" /\ Head(sweep[s].rows) = id]_vars

\* a sweep ran over two due entries of which the first was already failed by
\* a receipt: it is dispatching the second and has not touched the first
C12_Witness ==
    /\ Len(scheduled_messages) = 2
    /\ scheduled_messages[1].scheduled_time <= scheduled_messages[2].scheduled_time
    /\ Status(1) = "failed" /\ statusWrites[1] = 0 /\ submitCalls[1] = 0
    /\ sweep[1].pc = "write" /\ sweep[1].rows = <<2>>

\* the POST /messages requests and the POST /media requests of the call
MessagesRequests == {k \in 1 .. Len(call.requests) : call.requests[k].api = "messages"}
MediaRequests == {k \in 1 .. Len(call.requests) : call.requests[k].api = "media"}

\* the category of the table that lists mimeType
Category(mimeType) ==
    CHOOSE c \in DOMAIN WHATSAPP_ALLOWED_TYPES : mimeType \in WHATSAPP_ALLOWED_TYPES[c]

C14_PayloadShape ==
    call.pc = "returned" =>
       \A k \in MessagesRequests :
          LET payload == call.requests[k].payload
          IN  /\ call.mediaRow.id = 0 =>
                    /\ payload.type = "text"
                    /\ payload.text.body = call.text
              /\ (call.mediaRow.id # 0 /\ call.mediaRow.type \in AllowedTypes) =>
                    /\ payload.type = Category(call.mediaRow.type)
                    /\ payload[payload.type].caption =
                          (IF call.text = NULL THEN "" ELSE call.text)

\* a video with no text has been submitted
C14_Witness ==
    /\ call.pc = "returned"
    /\ MessagesRequests # {}
    /\ call.mediaRow.type = "video/mp4"
    /\ call.text = NULL

\* C15: once an entry is sent or failed, no step of any operation stores a
\* different status for it.
C15_TerminalAbsorbing ==
    [][\A id \in Entries :
          Status(id) \in {"sent", "failed"} => scheduled_messages'[id].status = Status(id)]_vars

C17_UploadThenSubmit ==
    call.pc = "returned" =>
       /\ Cardinality(MediaRequests) <= 1
       /\ Cardinality(MessagesRequests) <= 1
       /\ call.mediaRow.id # 0 =>
             \A k \in MessagesRequests :
                LET payload == call.requests[k].payload
                IN  /\ k = 2
                    /\ call.requests[1].api = "media"
                    /\ call.requests[1].response # NULL
                    /\ payload[payload.type].id = call.requests[1].response

\* a media call has uploaded and then submitted
C17_Witness ==
    /\ call.pc = "returned"
    /\ call.mediaRow.id # 0
    /\ Len(call.requests) = 2
    /\ call.result # NULL

\* C18: every entry's status is pending, sent or failed, whatever status
\* string a receipt carried, and a row is inserted as pending.
C18_StatusDomain ==
    /\ [](\A id \in Entries : Status(id) \in {"pending", "sent", "failed"})
    /\ [][Len(scheduled_messages') > Len(scheduled_messages) =>
             scheduled_messages'[Len(scheduled_messages')].status = "pending"]_vars

\* a receipt has stored failed in a row that was never dispatched
C18_Witness ==
    \E id \in Entries : Status(id) = "failed" /\ statusWrites[id] = 0 /\ submitCalls[id] = 0

\* C19: the provider is called for an entry at no time before the entry's
\* scheduled_time.
C19_NeverEarly ==
    \A id \in Entries :
       submitCalls[id] > 0 => scheduled_messages[id].scheduled_time <= now

\* C20: an entry is sent only if the provider accepted a submission for it;
\* at the least, a sent entry has had a submission call.
C20_SentOnlyIfSubmitted ==
    \A id \in Entries : Status(id) = "sent" => submitCalls[id] >= 1

\* C21: a sweep returns only after the last row it selected: whatever failed
\* while one row was dispatched, no selected row is left behind it.
C21_SweepIsolatesFailures ==
    [][\A s \in SweepIds :
          (sweep[s].pc # "idle" /\ sweep'[s].pc = "idle") => Len(sweep[s].rows) = 1]_vars

====
